---- MODULE Spec2Model ----
(***************************************************************************)
(* The guest-list routes of MessageRouter (sendMessage.router.ts):         *)
(* registrarConvidados (bulk import), confirmados (report), sendConvite    *)
(* (staggered broadcast) and the button validation of sendButtons, over    *)
(* the Convidados table of the migration.                                  *)
(*                                                                         *)
(* One action is one continuation of a handler: JavaScript runs a handler  *)
(* to its next await without interruption, so the code between two awaits  *)
(* is atomic and other requests interleave only at the awaits.             *)
(***************************************************************************)
EXTENDS Integers, Sequences, FiniteSets, TLC

\* ---------------------------------------------------------------- bounds
MaxBody == 2        \* longest request array
MaxRows == 4        \* rows the table may hold (bounds the racing imports)
MaxButtons == 3     \* longest button list of a sendButtons request

\* ------------------------------------------------------------- constants
CREATED == 201          \* HttpStatus.CREATED
StaggerMs == 60000      \* the per-index delay of the broadcast
TickMs == StaggerMs \div 2   \* granularity of the modelled clock

Undefined == "undefined"    \* a field the JSON body does not carry
DefaultPresente == "M"

Clients == {"c1", "c2"}

\* The guest tuples a request may carry: two well-formed guests, a second
\* spelling of the first guest's phone, a tuple without nome and a tuple
\* without phone.
Tuples ==
  { [nome |-> "Ana",     phone |-> "p1",      presente |-> "S"],
    [nome |-> "Bia",     phone |-> "p2",      presente |-> Undefined],
    [nome |-> "Ana M.",  phone |-> "p1",      presente |-> Undefined],
    [nome |-> Undefined, phone |-> "p2",      presente |-> "S"],
    [nome |-> "Dora",    phone |-> Undefined, presente |-> "S"] }

\* The well-formed tuples among them.
RaceTuples ==
  { [nome |-> "Ana", phone |-> "p1", presente |-> "S"],
    [nome |-> "Bia", phone |-> "p2", presente |-> Undefined] }

SeqsUpTo(S, len) == UNION { [1..k -> S] : k \in 0..len }

\* req.body: a JSON array of tuples, or a JSON object (not iterable).
Bodies ==
  { [isArray |-> TRUE, items |-> s] : s \in SeqsUpTo(Tuples, MaxBody) }
    \cup { [isArray |-> FALSE, items |-> << >>] }

\* The guests stored before a broadcast is triggered, and the array
\* imported around it.
EarlierGuests ==
  << [nome |-> "Ana", phone |-> "p1", presente |-> "S"],
     [nome |-> "Bia", phone |-> "p2", presente |-> Undefined] >>

ConviteBodies ==
  { [isArray |-> TRUE,
     items |-> << [nome |-> "Caio", phone |-> "p3", presente |-> "S"] >>] }

RaceBodies ==
  { [isArray |-> TRUE, items |-> s] : s \in SeqsUpTo(RaceTuples, MaxBody) }

NoBody == [isArray |-> FALSE, items |-> << >>]

VARIABLES
  rows,            \* the Convidados table, in insertion (id) order
  pc,              \* per client: where its registrarConvidados call stands
  body,            \* per client: req.body of the call
  idx,             \* per client: 1-based position of the for-await loop
  convidadoExist,  \* per client: result of the last findFirst (<< >> = null)
  res,             \* per client: the response sent (<< >> = none)
  err,             \* per client: the error the handler threw ("none" = none)
  stmts,           \* per client: the storage statements the call issued
  repeat,          \* per client: the call repeats the client's previous
                   \* call, which ran to its end, with the same body
  convidadosReport,  \* confirmados: the rows its findMany read
  report,          \* confirmados: the response sent (<< >> = none)
  bpc,             \* sendConvite: where the handler stands
  convidados,      \* sendConvite: the rows its findMany read
  timers,          \* sendConvite: the deferred per-guest actions
  bres,            \* sendConvite: the response sent (<< >> = none)
  elapsed,         \* ms since the broadcast's timers were set
  calls,           \* the POSTs issued to the gateway, in issue order
  sentConfirmed,   \* a timer fired for a guest whose row was confirmed by then
  spc,             \* sendButtons: where the execute callback stands
  buttons,         \* sendButtons: props.buttonsMessage.buttons
  n,               \* sendButtons: the loop index i, 1-based
  serr,            \* sendButtons: the exception thrown (<< >> = none)
  controllerCalls  \* sendMessageController.sendButtons calls of the request

importVars == <<pc, body, idx, convidadoExist, res, err, stmts, repeat>>
reportVars == <<convidadosReport, report>>
conviteVars == <<bpc, convidados, timers, bres, elapsed, calls, sentConfirmed>>
buttonVars == <<spc, buttons, n, serr, controllerCalls>>
vars == <<rows, pc, body, idx, convidadoExist, res, err, stmts, repeat,
          convidadosReport, report, bpc, convidados, timers, bres, elapsed,
          calls, sentConfirmed, spc, buttons, n, serr, controllerCalls>>

\* ------------------------------------------------------------ the table

\* INSERT into Convidados: id is SERIAL, confirmed defaults to false and
\* presente to 'M'.
NewRow(table, data) ==
  [ id        |-> Len(table) + 1,
    nome      |-> data.nome,
    phone     |-> data.phone,
    confirmed |-> FALSE,
    presente  |-> IF data.presente = Undefined THEN DefaultPresente
                  ELSE data.presente ]

\* nome and phone are NOT NULL without a default: an insert that leaves one
\* out is refused.
\* As InsertAccepted, had the table a UNIQUE constraint on phone.
InsertAcceptedUniquePhone(table, data) ==
  /\ data.nome # Undefined /\ data.phone # Undefined
  /\ \A i \in DOMAIN table : table[i].phone # data.phone

\* No constraint of the table looks at the rows already stored.
InsertAccepted(table, data) ==
  data.nome # Undefined /\ data.phone # Undefined

RECURSIVE FirstFrom(_, _, _)
FirstFrom(table, phone, i) ==
  IF i > Len(table) THEN << >>
  ELSE IF phone = Undefined \/ table[i].phone = phone THEN << table[i] >>
  ELSE FirstFrom(table, phone, i + 1)

\* As FindFirstByPhone, looking at the first row of the table only.
FindFirstRowOnly(table, phone) ==
  IF table # << >> /\ (phone = Undefined \/ table[1].phone = phone)
  THEN << table[1] >> ELSE << >>

\* prisma.convidados.findFirst({ where: { phone } }): the first row with
\* that phone; an undefined phone is no condition, so any row matches.
FindFirstByPhone(table, phone) == FirstFrom(table, phone, 1)

RECURSIVE WhereConfirmed(_, _)
WhereConfirmed(table, flag) ==
  IF table = << >> THEN << >>
  ELSE IF Head(table).confirmed = flag
       THEN << Head(table) >> \o WhereConfirmed(Tail(table), flag)
       ELSE WhereConfirmed(Tail(table), flag)

\* ------------------------------------------------- registrarConvidados

\* No request of the client is in flight: none was made yet, or the last
\* one ended (with a response or a thrown error).
Idle(c) == pc[c] \in {"new", "ended"}

\* Tuples that calls in flight may still insert.
Pending(c) == IF Idle(c) THEN 0 ELSE Len(body[c].items) - idx[c] + 1

RECURSIVE SumPending(_)
SumPending(S) ==
  IF S = {} THEN 0
  ELSE LET c == CHOOSE x \in S : TRUE IN Pending(c) + SumPending(S \ {c})

\* A storage statement of a call: which one, for the tuple at which position,
\* and how it ended: "ok", "refused" (the insert violates the table's
\* constraints) or "failed" (the storage could not run it).
Stmt(op, pos, outcome) == [op |-> op, pos |-> pos, outcome |-> outcome]

\* The handler throws: the promise of the async handler rejects and no
\* response is written by it.
Throw(c, kind) ==
  /\ pc' = [pc EXCEPT ![c] = "ended"]
  /\ err' = [err EXCEPT ![c] = kind]

\* The loop moves to the next tuple, or past the last one to findMany.
NextTuple(c) ==
  IF idx[c] < Len(body[c].items)
  THEN /\ idx' = [idx EXCEPT ![c] = idx[c] + 1]
       /\ pc' = [pc EXCEPT ![c] = "findFirst"]
  ELSE /\ idx' = [idx EXCEPT ![c] = idx[c] + 1]
       /\ pc' = [pc EXCEPT ![c] = "findMany"]

\* The request arrives: body is read and the for-await loop is entered.
StartImport(c, b) ==
  /\ Idle(c)
  /\ Len(rows) + SumPending(Clients) + Len(b.items) <= MaxRows
  /\ body' = [body EXCEPT ![c] = b]
  /\ idx' = [idx EXCEPT ![c] = 1]
  /\ convidadoExist' = [convidadoExist EXCEPT ![c] = << >>]
  /\ res' = [res EXCEPT ![c] = << >>]
  /\ stmts' = [stmts EXCEPT ![c] = << >>]
  /\ repeat' = [repeat EXCEPT ![c] =
                   pc[c] = "ended" /\ err[c] # "StorageError" /\ body[c] = b]
  /\ IF ~b.isArray
     THEN Throw(c, "TypeError")
     ELSE /\ err' = [err EXCEPT ![c] = "none"]
          /\ pc' = [pc EXCEPT ![c] =
                      IF b.items = << >> THEN "findMany" ELSE "findFirst"]
  /\ UNCHANGED <<rows, reportVars, conviteVars, buttonVars>>

\* await prisma.convidados.findFirst(...) answers.
FindFirst(c) ==
  /\ pc[c] = "findFirst"
  /\ LET found == FindFirstByPhone(rows, body[c].items[idx[c]].phone) IN
       /\ convidadoExist' = [convidadoExist EXCEPT ![c] = found]
       /\ stmts' = [stmts EXCEPT ![c] = Append(@, Stmt("findFirst", idx[c], "ok"))]
       /\ IF found = << >>
          THEN /\ pc' = [pc EXCEPT ![c] = "create"]
               /\ idx' = idx
          ELSE NextTuple(c)
  /\ UNCHANGED <<rows, body, res, err, repeat, reportVars, conviteVars, buttonVars>>

\* await prisma.convidados.create(...) answers.
Create(c) ==
  /\ pc[c] = "create"
  /\ LET data == body[c].items[idx[c]] IN
       IF InsertAccepted(rows, data)
       THEN /\ rows' = Append(rows, NewRow(rows, data))
            /\ stmts' = [stmts EXCEPT ![c] = Append(@, Stmt("create", idx[c], "ok"))]
            /\ NextTuple(c)
            /\ err' = err
       ELSE /\ stmts' = [stmts EXCEPT ![c] = Append(@, Stmt("create", idx[c], "refused"))]
            /\ Throw(c, "PrismaValidationError")
            /\ UNCHANGED <<rows, idx>>
  /\ UNCHANGED <<body, convidadoExist, res, repeat, reportVars, conviteVars, buttonVars>>

\* await prisma.convidados.findMany() answers and the response is sent.
FindMany(c) ==
  /\ pc[c] = "findMany"
  /\ stmts' = [stmts EXCEPT ![c] = Append(@, Stmt("findMany", idx[c], "ok"))]
  /\ res' = [res EXCEPT ![c] = << [status |-> CREATED, json |-> rows] >>]
  /\ pc' = [pc EXCEPT ![c] = "ended"]
  /\ UNCHANGED <<rows, body, idx, convidadoExist, err, repeat, reportVars, conviteVars, buttonVars>>

\* As StorageFailure, with the rejection caught and the loop carrying on.
StorageFailureSwallowed(c) ==
  /\ pc[c] \in {"findFirst", "create", "findMany"}
  /\ stmts' = [stmts EXCEPT ![c] = Append(@, Stmt(pc[c], idx[c], "failed"))]
  /\ IF pc[c] = "findMany"
     THEN /\ pc' = [pc EXCEPT ![c] = "ended"]
          /\ res' = [res EXCEPT ![c] = << [status |-> CREATED, json |-> << >>] >>]
          /\ idx' = idx
     ELSE /\ NextTuple(c)
          /\ res' = res
  /\ UNCHANGED <<rows, body, convidadoExist, err, repeat, reportVars, conviteVars, buttonVars>>

\* The awaited statement rejects (database unreachable, query failure):
\* nothing catches it, so the handler throws at that await.
StorageFailure(c) ==
  /\ pc[c] \in {"findFirst", "create", "findMany"}
  /\ stmts' = [stmts EXCEPT ![c] = Append(@, Stmt(pc[c], idx[c], "failed"))]
  /\ Throw(c, "StorageError")
  /\ UNCHANGED <<rows, body, idx, convidadoExist, res, repeat, reportVars, conviteVars, buttonVars>>

\* ---------------------------------------------------------- confirmados

\* As FilterConfirmed, with the predicate left out.
FilterNothing(list) == list

\* convidados.filter((convidado) => convidado.confirmed)
FilterConfirmed(list) == WhereConfirmed(list, TRUE)

\* GET confirmados: findMany answers and the report is sent.
Confirmados ==
  /\ convidadosReport' = rows
  /\ report' = << [ status           |-> CREATED,
                    totalConvites    |-> Len(rows),
                    totalConfirmados |-> Len(FilterConfirmed(rows)),
                    confirmados      |-> FilterConfirmed(rows) ] >>
  /\ UNCHANGED <<rows, importVars, conviteVars, buttonVars>>

\* The confirmation flow, a collaborator outside this router, sets a
\* guest's confirmed flag.
ConfirmGuest(i) ==
  /\ i \in DOMAIN rows
  /\ ~rows[i].confirmed
  /\ rows' = [rows EXCEPT ![i].confirmed = TRUE]
  /\ UNCHANGED <<importVars, reportVars, conviteVars, buttonVars>>

\* ---------------------------------------------------------- sendConvite

Invitation == [status |-> CREATED, message |-> "Convites sendo enviados"]

\* As Delay, with the index left out of the product.
DelayFixed(index) == StaggerMs

\* setTimeout(..., index * 60000), index 0-based.
Delay(index) == index * StaggerMs

\* for (const [index, convidado] of convidados.entries()) setTimeout(...)
Schedule(list) ==
  [ i \in DOMAIN list |->
      [ convidado |-> list[i], delay |-> Delay(i - 1), status |-> "scheduled",
        mediaFailed |-> FALSE ] ]

AllDone == \A i \in DOMAIN timers : timers[i].status = "done"

\* GET sendConvite arrives: the headers are built and findMany is issued.
\* One broadcast is followed from its trigger to its last POST; a trigger
\* is repeated only after a findMany that failed.
SendConviteRequest ==
  /\ bpc \in {"idle", "failed"}
  /\ bpc' = "findMany"
  /\ convidados' = << >>
  /\ timers' = << >>
  /\ bres' = << >>
  /\ elapsed' = 0
  /\ calls' = << >>
  /\ sentConfirmed' = FALSE
  /\ UNCHANGED <<rows, importVars, reportVars, buttonVars>>

\* findMany({ where: { confirmed: false } }) answers and the loop sets one
\* timer per guest read. The loop and the response that follows it are one
\* run of the handler; they are two steps here so that the order of their
\* effects shows, and Deferred keeps the timers from firing in between.
SendConviteSchedule ==
  /\ bpc = "findMany"
  /\ convidados' = WhereConfirmed(rows, FALSE)
  /\ timers' = Schedule(WhereConfirmed(rows, FALSE))
  /\ bpc' = "loop"
  /\ UNCHANGED <<rows, importVars, reportVars, buttonVars, bres, elapsed, calls,
                 sentConfirmed>>

\* findMany rejects: the handler throws, nothing is scheduled.
SendConviteFails ==
  /\ bpc = "findMany"
  /\ bpc' = "failed"
  /\ UNCHANGED <<rows, importVars, reportVars, buttonVars, convidados, timers, bres,
                 elapsed, calls, sentConfirmed>>

\* return res.status(HttpStatus.CREATED).json(...): the same run of the
\* handler, after the loop.
SendConviteRespond ==
  /\ bpc = "loop"
  /\ bres' = << Invitation >>
  /\ bpc' = "responded"
  /\ UNCHANGED <<rows, importVars, reportVars, buttonVars, convidados, timers, elapsed,
                 calls, sentConfirmed>>

\* Time passes while a timer is still to come due.
Tick ==
  /\ \E i \in DOMAIN timers :
       timers[i].status = "scheduled" /\ timers[i].delay > elapsed
  /\ elapsed' = elapsed + TickMs
  /\ UNCHANGED <<rows, importVars, reportVars, buttonVars, bpc, convidados, timers, bres,
                 calls, sentConfirmed>>

\* As Deferred, had the loop called sendConvite(convidado) itself.
CalledInline == TRUE

\* A timer's callback runs only from the event loop, hence after the run of
\* the handler that set it has returned.
Deferred == bpc # "loop"

\* As CapturedConvidado, reading the guest's row again when the timer fires.
RereadConvidado(i) == rows[timers[i].convidado.id]

\* The convidado the callback closes over: the object findMany returned.
CapturedConvidado(i) == timers[i].convidado

\* fetch(`${BASE_URL}/message/<op>/baby`, { method: 'POST', ... }) for the
\* convidado of timer i (number: convidado.phone).
Post(op, i) ==
  [ op |-> op, convidado |-> CapturedConvidado(i), index |-> i - 1 ]

\* Timer i comes due and its callback runs sendConvite(convidado) up to the
\* await of the media POST. Timers run in the order of their expiry.
TimerFires(i) ==
  /\ i \in DOMAIN timers
  /\ Deferred
  /\ timers[i].status = "scheduled"
  /\ elapsed >= timers[i].delay
  /\ \A j \in DOMAIN timers :
       timers[j].delay < timers[i].delay \/ (timers[j].delay = timers[i].delay /\ j < i)
         => timers[j].status # "scheduled"
  /\ timers' = [timers EXCEPT ![i].status = "media"]
  /\ sentConfirmed' = (sentConfirmed \/ rows[timers[i].convidado.id].confirmed)
  /\ calls' = Append(calls, Post("sendMedia", i))
  /\ UNCHANGED <<rows, importVars, reportVars, buttonVars, bpc, convidados, bres, elapsed>>

\* As AfterMedia, without the .catch: a failed media POST ends the action.
AfterMediaUncaught(ok) == IF ok THEN "text" ELSE "done"

\* .catch((error) => console.error(error)): the awaited promise fulfils
\* whether the POST was answered or failed, and sendConvite goes on.
AfterMedia(ok) == "text"

\* The media POST settles: answered (ok) or failed.
MediaSettles(i, ok) ==
  /\ i \in DOMAIN timers
  /\ timers[i].status = "media"
  /\ timers' = [timers EXCEPT ![i].status = AfterMedia(ok),
                                ![i].mediaFailed = ~ok]
  /\ calls' = IF AfterMedia(ok) = "text" THEN Append(calls, Post("sendText", i))
               ELSE calls
  /\ UNCHANGED <<rows, importVars, reportVars, buttonVars, bpc, convidados, bres, elapsed,
                 sentConfirmed>>

\* The text POST settles: answered (ok) or failed, which the .catch makes the
\* same to sendConvite; it returns.
TextSettles(i, ok) ==
  /\ i \in DOMAIN timers
  /\ timers[i].status = "text"
  /\ timers' = [timers EXCEPT ![i].status = "done"]
  /\ UNCHANGED <<rows, importVars, reportVars, buttonVars, bpc, convidados, bres, elapsed,
                 calls, sentConfirmed>>

\* ---------------------------------------------------------- sendButtons

\* A button as the loop sees it: its kind and what its validate() returns,
\* an error message or "" for none.
Buttons ==
  { [type |-> "reply", err |-> ""],
    [type |-> "url",   err |-> ""],
    [type |-> "reply", err |-> "displayText is required"],
    [type |-> "url",   err |-> "url is required"] }

\* As LoopContinues, stopping one button short.
LoopStopsShort(k, len) == k < len

\* i < props.buttonsMessage.buttons.length, for the 1-based index.
LoopContinues(k, len) == k <= len

BadRequestException(message) == [name |-> "BadRequestException", message |-> message]

\* The request passed its schema and execute runs: new SendButtonsDto(data).
SendButtonsRequest(list) ==
  /\ spc \in {"idle", "ended"}
  /\ spc' = "loop"
  /\ buttons' = list
  /\ n' = 1
  /\ serr' = << >>
  /\ controllerCalls' = 0
  /\ UNCHANGED <<rows, importVars, reportVars, conviteVars>>

\* One turn of the for loop, or the statement after it.
SendButtonsLoop ==
  /\ spc = "loop"
  /\ IF LoopContinues(n, Len(buttons))
     THEN IF buttons[n].err # ""
          THEN \* throw new BadRequestException(err.message), caught and
               \* thrown again as a BadRequestException with that message
               /\ serr' = << BadRequestException(buttons[n].err) >>
               /\ spc' = "ended"
               /\ UNCHANGED <<n, controllerCalls>>
          ELSE /\ n' = n + 1
               /\ UNCHANGED <<spc, serr, controllerCalls>>
     ELSE \* return sendMessageController.sendButtons(instance, props)
          /\ controllerCalls' = controllerCalls + 1
          /\ spc' = "controller"
          /\ UNCHANGED <<n, serr>>
  /\ UNCHANGED <<rows, importVars, reportVars, conviteVars, buttons>>

\* The controller's promise settles and the request ends: with the 201
\* response, or with the controller's error.
SendButtonsSettles(ok) ==
  /\ spc = "controller"
  /\ spc' = "ended"
  /\ serr' = IF ok THEN << >> ELSE << [name |-> "ControllerError", message |-> ""] >>
  /\ UNCHANGED <<rows, importVars, reportVars, conviteVars, buttons, n,
                 controllerCalls>>

\* ------------------------------------------------------------ lifecycle

\* The router as MessageRouter returns it: no request made yet.
Fresh ==
  /\ pc = [c \in Clients |-> "new"]
  /\ body = [c \in Clients |-> NoBody]
  /\ idx = [c \in Clients |-> 1]
  /\ convidadoExist = [c \in Clients |-> << >>]
  /\ res = [c \in Clients |-> << >>]
  /\ err = [c \in Clients |-> "none"]
  /\ stmts = [c \in Clients |-> << >>]
  /\ repeat = [c \in Clients |-> FALSE]
  /\ convidadosReport = << >>
  /\ report = << >>
  /\ bpc = "idle"
  /\ convidados = << >>
  /\ timers = << >>
  /\ bres = << >>
  /\ elapsed = 0
  /\ calls = << >>
  /\ sentConfirmed = FALSE
  /\ spc = "idle"
  /\ buttons = << >>
  /\ n = 1
  /\ serr = << >>
  /\ controllerCalls = 0

\* The process starts over an empty table.
Init == rows = << >> /\ Fresh

RECURSIVE Stored(_, _)
Stored(table, items) ==
  IF items = << >> THEN table
  ELSE Stored(Append(table, NewRow(table, Head(items))), Tail(items))

\* The process starts over the table an earlier import of EarlierGuests
\* left (the table outlives the process).
InitConvite == rows = Stored(<< >>, EarlierGuests) /\ Fresh

ImportStep(c) ==
  \/ FindFirst(c)
  \/ Create(c)
  \/ FindMany(c)
  \/ StorageFailure(c)

\* Imports that never overlap: one caller, whose next request arrives only
\* after its last one ended.
NextImport ==
  \/ \E b \in Bodies : StartImport("c1", b)
  \/ ImportStep("c1")

SpecImport == Init /\ [][NextImport]_vars

\* Two callers whose requests overlap freely.
NextRace ==
  \E c \in Clients :
    \/ \E b \in RaceBodies : StartImport(c, b)
    \/ ImportStep(c)

SpecRace == Init /\ [][NextRace]_vars

\* The report, over tables that imports fill and confirmations mark.
NextReport ==
  \/ \E b \in RaceBodies : StartImport("c1", b)
  \/ ImportStep("c1")
  \/ \E i \in 1..MaxRows : ConfirmGuest(i)
  \/ Confirmados

SpecReport == Init /\ [][NextReport]_vars

\* The broadcast, while guests are imported and confirmed around it.
NextConvite ==
  \/ \E b \in ConviteBodies : StartImport("c1", b)
  \/ FindFirst("c1")
  \/ Create("c1")
  \/ FindMany("c1")
  \/ \E i \in 1..MaxRows : ConfirmGuest(i)
  \/ SendConviteRequest
  \/ SendConviteSchedule
  \/ SendConviteFails
  \/ SendConviteRespond
  \/ Tick
  \/ \E i \in 1..MaxRows : TimerFires(i)
  \/ \E i \in 1..MaxRows, ok \in BOOLEAN : MediaSettles(i, ok)
  \/ \E i \in 1..MaxRows, ok \in BOOLEAN : TextSettles(i, ok)

SpecConvite == InitConvite /\ [][NextConvite]_vars

\* sendButtons requests, one after another.
NextButtons ==
  \/ \E list \in SeqsUpTo(Buttons, MaxButtons) : SendButtonsRequest(list)
  \/ SendButtonsLoop
  \/ \E ok \in BOOLEAN : SendButtonsSettles(ok)

SpecButtons == Init /\ [][NextButtons]_vars

\* ================================================================ claims

Range(f) == { f[i] : i \in DOMAIN f }

OkCreates(c) ==
  { k \in DOMAIN stmts[c] : stmts[c][k].op = "create" /\ stmts[c][k].outcome = "ok" }

NoDuplicatePhone ==
  \A i, j \in DOMAIN rows : i # j => rows[i].phone # rows[j].phone

\* C1: when imports do not overlap, the table never holds two guests with
\* one phone; a step that inserts a row inserts a phone that was not stored
\* (a tuple whose phone is stored, by an earlier call or an earlier tuple of
\* the array, inserts nothing); and a call that repeats the previous call's
\* array, that call having run to its end, changes no row.
C1_SequentialImportIdempotent ==
  /\ []NoDuplicatePhone
  /\ [][ /\ rows' # rows =>
             /\ Len(rows') = Len(rows) + 1
             /\ \A i \in DOMAIN rows : rows'[i] = rows[i]
             /\ \A i \in DOMAIN rows : rows[i].phone # rows'[Len(rows')].phone
         /\ repeat["c1"] /\ ~Idle("c1") => rows' = rows ]_vars

\* C1 witness: the same array, two tuples with one phone, was imported a
\* second time, answered 201, and that call issued no insert.
C1_Witness ==
  /\ repeat["c1"] /\ pc["c1"] = "ended" /\ res["c1"] # << >>
  /\ Len(body["c1"].items) = 2
  /\ body["c1"].items[1].phone = body["c1"].items[2].phone
  /\ body["c1"].items[1].nome # body["c1"].items[2].nome
  /\ OkCreates("c1") = {}
  /\ Len(stmts["c1"]) = 3
  /\ Len(rows) = 1

ReportOf(table, r) ==
  LET confirmedRows == { table[i] : i \in { k \in DOMAIN table : table[k].confirmed } } IN
  /\ r.status = CREATED
  /\ r.totalConvites = Cardinality(DOMAIN table)
  /\ r.totalConfirmados = Cardinality({ k \in DOMAIN table : table[k].confirmed })
  /\ Range(r.confirmados) = confirmedRows
  /\ Len(r.confirmados) = Cardinality(confirmedRows)

\* C2: the report counts all guests it read, counts the confirmed ones, lists
\* exactly the confirmed ones, for every table including the empty one; and
\* the step that reports reads the table as it is and changes no row.
C2_ReportCountsConfirmed ==
  /\ [](report # << >> => ReportOf(convidadosReport, report[1]))
  /\ [][ (report' # report \/ convidadosReport' # convidadosReport) =>
            rows' = rows /\ convidadosReport' = rows ]_vars

\* C2 witness: a report over a table with a confirmed and an unconfirmed
\* guest.
C2_Witness ==
  /\ report # << >>
  /\ report[1].totalConvites = 2
  /\ report[1].totalConfirmados = 1
  /\ Len(report[1].confirmados) = 1

\* C2 witness of the empty table is the report of the initial table.

Malformed(b) ==
  \/ ~b.isArray
  \/ \E k \in DOMAIN b.items :
       b.items[k].nome = Undefined \/ b.items[k].phone = Undefined

\* C6 (as claimed): a call with a malformed body inserts no row and ends
\* with the client error (BadRequestException, HTTP 400).
C6_MalformedRejectedBeforeSideEffect ==
  \A c \in Clients :
    (pc[c] # "new" /\ Malformed(body[c])) =>
       /\ OkCreates(c) = {}
       /\ pc[c] = "ended" => (err[c] = "BadRequestException" /\ res[c] = << >>)

\* C7: an insert the storage runs is never refused on account of the rows
\* stored since the call's lookup: a call whose lookup found no guest
\* inserts its row whatever the table holds by then.
C7_InsertAfterStaleLookup ==
  [][ \A c \in Clients :
        (pc[c] = "create" /\ pc'[c] # "create" /\ err'[c] # "StorageError") =>
           /\ convidadoExist[c] = << >>
           /\ rows' = Append(rows, NewRow(rows, body[c].items[idx[c]])) ]_vars

\* C7 witness: two rows share a phone, and both calls looked up (finding
\* nothing), inserted and answered 201.
C7_Witness ==
  /\ \E i, j \in DOMAIN rows : i < j /\ rows[i].phone = rows[j].phone
  /\ \A c \in Clients :
       /\ pc[c] = "ended" /\ res[c] # << >>
       /\ Len(body[c].items) = 1
       /\ [k \in DOMAIN stmts[c] |-> stmts[c][k].op] = <<"findFirst", "create", "findMany">>
       /\ \A k \in DOMAIN stmts[c] : stmts[c][k].outcome = "ok"
  /\ body["c1"] = body["c2"]
  /\ Len(rows) = 2

\* C8: a statement that did not succeed is the last statement its call
\* issued (no later tuple is looked up or inserted), the call has ended, it
\* threw the error and sent no response.
C8_StorageFailureAborts ==
  \A c \in Clients : \A k \in DOMAIN stmts[c] :
    stmts[c][k].outcome # "ok" =>
       /\ k = Len(stmts[c])
       /\ pc[c] = "ended"
       /\ err[c] \in {"StorageError", "PrismaValidationError"}
       /\ res[c] = << >>
       /\ idx[c] = stmts[c][k].pos

\* C8 witness: the insert of the first of two tuples failed; the second
\* tuple was never looked up.
C8_Witness ==
  /\ pc["c1"] = "ended" /\ err["c1"] = "StorageError"
  /\ Len(body["c1"].items) = 2
  /\ Len(stmts["c1"]) = 2
  /\ stmts["c1"][2] = Stmt("create", 1, "failed")
  /\ res["c1"] = << >>

Started(k) == timers[k].status # "scheduled"

IsMediaPost(c) == c.op = "sendMedia"

MediaPosts == SelectSeq(calls, IsMediaPost)

\* C3: the trigger sets exactly one timer per guest it read with confirmed =
\* false, the timer of the guest at 0-based index k being due k * 60000 ms
\* after the trigger; no action starts before it is due nor before the
\* action of the guest before it has started, the media POSTs leave in
\* guest-list order; with no guest read there is no timer and no POST.
C3_StaggeredInListOrder ==
  /\ [] /\ bpc \in {"loop", "responded"} => Len(timers) = Len(convidados)
        /\ \A k \in DOMAIN convidados : convidados[k].confirmed = FALSE
        /\ \A k \in DOMAIN timers :
             /\ timers[k].convidado = convidados[k]
             /\ timers[k].delay = (k - 1) * StaggerMs
             /\ (k > 1 /\ Started(k)) => Started(k - 1)
        /\ Len(MediaPosts) = Cardinality({ k \in DOMAIN timers : Started(k) })
        /\ \A m \in DOMAIN MediaPosts : MediaPosts[m].index = m - 1
        /\ timers = << >> => calls = << >>
  /\ [][ \A k \in DOMAIN timers \cap DOMAIN timers' :
            (timers[k].status = "scheduled" /\ timers'[k].status # "scheduled")
               => elapsed >= (k - 1) * StaggerMs ]_vars

\* C3 witness: three guests were read and the three actions have started,
\* the third one 120000 ms after the trigger.
C3_Witness ==
  /\ Len(convidados) = 3
  /\ \A k \in DOMAIN timers : Started(k)
  /\ elapsed = 2 * StaggerMs
  /\ Len(MediaPosts) = 3

\* C4: whenever a POST has been issued or an action has started, the 201
\* response was already sent; the response is sent with every timer set, and
\* once sent it never changes, whatever the gateway answers.
C4_ResponseBeforeAnySend ==
  /\ [] /\ (calls # << >> \/ \E k \in DOMAIN timers : Started(k))
             => bres = << Invitation >>
        /\ bres # << >> =>
             /\ bres = << Invitation >>
             /\ bpc = "responded"
             /\ Len(timers) = Len(convidados)
  /\ [][ bres # << >> => bres' = bres ]_vars

\* C4 witness: the response stands after the first guest's media POST
\* failed and every action has run to its end.
C4_Witness ==
  /\ bres = << Invitation >>
  /\ timers # << >>
  /\ timers[1].mediaFailed
  /\ AllDone

PostsOf(op, k) ==
  { m \in DOMAIN calls : calls[m].op = op /\ calls[m].index = k - 1 }

\* C9: each action issues one media POST when it starts and one text POST
\* when the media POST settles, answered or failed, both to its guest's
\* phone and in that order; a text POST is issued at no other moment; and an
\* action that is due, its predecessors started, can start whatever became of
\* the other guests' POSTs.
C9_MediaThenTextPerGuest ==
  /\ [] \A k \in DOMAIN timers :
          /\ Cardinality(PostsOf("sendMedia", k)) = IF Started(k) THEN 1 ELSE 0
          /\ Cardinality(PostsOf("sendText", k)) =
                IF timers[k].status \in {"text", "done"} THEN 1 ELSE 0
          /\ \A m \in PostsOf("sendMedia", k), t \in PostsOf("sendText", k) : m < t
          /\ \A m \in PostsOf("sendMedia", k) \cup PostsOf("sendText", k) :
                calls[m].convidado.phone = convidados[k].phone
          /\ ( /\ timers[k].status = "scheduled" /\ bpc = "responded"
               /\ elapsed >= timers[k].delay
               /\ \A j \in 1..(k - 1) : Started(j) ) => ENABLED TimerFires(k)
  /\ [][ /\ \A k \in DOMAIN timers \cap DOMAIN timers' :
              (timers[k].status = "media" /\ timers'[k].status # "media") =>
                 /\ timers'[k].status = "text"
                 /\ calls' = Append(calls, [op |-> "sendText",
                                            convidado |-> convidados[k],
                                            index |-> k - 1])
         /\ (Len(calls') > Len(calls) /\ calls'[Len(calls')].op = "sendText") =>
               timers[calls'[Len(calls')].index + 1].status = "media" ]_vars

\* C9 witness: the first guest's media POST failed, its text POST was issued
\* all the same, and the second guest's action ran to its end.
C9_Witness ==
  /\ Len(timers) >= 2
  /\ timers[1].mediaFailed /\ timers[1].status = "done"
  /\ Cardinality(PostsOf("sendText", 1)) = 1
  /\ timers[2].status = "done" /\ ~timers[2].mediaFailed

\* C10: every POST is built from the guest object the trigger's one read
\* returned, at its index; the list read and the timers set from it do not
\* change while the broadcast runs; the read returns the rows that are
\* unconfirmed at that moment; and no step of the broadcast changes a row.
C10_RecipientsFixedAtTrigger ==
  /\ [] /\ \A m \in DOMAIN calls :
             /\ calls[m].index + 1 \in DOMAIN convidados
             /\ calls[m].convidado = convidados[calls[m].index + 1]
        /\ \A k \in DOMAIN timers : timers[k].convidado = convidados[k]
  /\ [][ /\ bpc \in {"loop", "responded"} =>
              /\ convidados' = convidados
              /\ DOMAIN timers' = DOMAIN timers
              /\ \A k \in DOMAIN timers : timers'[k].convidado = timers[k].convidado
         /\ (bpc = "findMany" /\ bpc' = "loop") =>
              Range(convidados') =
                { rows[k] : k \in { x \in DOMAIN rows : ~rows[x].confirmed } }
         /\ rows' # rows => UNCHANGED conviteVars
         /\ ~(UNCHANGED conviteVars) => rows' = rows ]_vars

\* C10 witness: the broadcast ran to its end, an action fired for a guest
\* confirmed since the trigger, and an unconfirmed guest inserted since the
\* trigger got no POST.
C10_Witness ==
  /\ bpc = "responded" /\ timers # << >> /\ AllDone
  /\ sentConfirmed
  /\ \E k \in DOMAIN rows :
       /\ ~rows[k].confirmed
       /\ \A j \in DOMAIN convidados : convidados[j].id # rows[k].id
       /\ \A m \in DOMAIN calls : calls[m].convidado.phone # rows[k].phone

HasInvalid(list) == \E k \in DOMAIN list : list[k].err # ""

\* C5: the controller is called at most once per request and only when
\* every button validates; a request with an invalid button, at whatever
\* position, ends with a BadRequestException and without a controller call;
\* a request whose buttons all validate reaches the controller.
C5_InvalidButtonRejected ==
  /\ controllerCalls \in {0, 1}
  /\ controllerCalls = 1 => ~HasInvalid(buttons)
  /\ HasInvalid(buttons) =>
       /\ spc \in {"loop", "ended"}
       /\ spc = "ended" =>
            /\ serr # << >>
            /\ serr[1].name = "BadRequestException"
            /\ controllerCalls = 0
  /\ (spc \in {"controller", "ended"} /\ ~HasInvalid(buttons)) => controllerCalls = 1

\* C5 witness: the third of three buttons is the invalid one; the request
\* ended with its message and the controller was not called.
C5_Witness ==
  /\ spc = "ended"
  /\ Len(buttons) = 3
  /\ buttons[1].err = "" /\ buttons[2].err = "" /\ buttons[3].err # ""
  /\ serr = << BadRequestException(buttons[3].err) >>
  /\ controllerCalls = 0

====
